---- MODULE Spec2Model ----
(***************************************************************************)
(* Model of review_bot.py: the message paginator                           *)
(* (split_review_into_messages), the diff filter inside get_code_diff with *)
(* the file classifier is_resource_file, and the control flow of main with *)
(* its outbound calls.                                                     *)
(*                                                                         *)
(* A Python str is a sequence of one-character strings; Python's 0-based   *)
(* index i is element i + 1 of the sequence.                               *)
(***************************************************************************)
EXTENDS Integers, Sequences, FiniteSets, TLC

VARIABLES
    \* split_review_into_messages
    text_in,                  \* the review_text argument as passed by the caller
    review_text,              \* the local review_text (the remaining text)
    max_length,               \* the max_length argument
    messages,                 \* the local list messages
    cuts,                     \* history: for each loop iteration, the value of rfind
    ppc,                      \* "idle"; "loop": at the while test; "done": returned
    \* get_code_diff, lines 124-141
    lines_in,                 \* the lines the fetched diff was made of
    diff_text,                \* the local diff_text (the response body)
    lines,                    \* diff_text.split('\n')
    pos,                      \* number of lines the for loop has consumed
    current_file_is_resource, \* the local of that name
    filtered_diff_lines,      \* the local of that name
    kept,                     \* history: for each consumed line, whether it was appended
    returned,                 \* the value returned at line 141
    dpc,                      \* "idle"; "scan": in the for loop; "done": returned
    \* module level and main
    GH_API_TOKEN,             \* whether the variable is set (truthy)
    DISCORD_WEBHOOK_URL,      \* whether the variable is set (truthy)
    GEMINI_API_KEY,           \* whether the variable is set (truthy)
    model,                    \* whether the module-level model is not None
    event_path,               \* whether GITHUB_EVENT_PATH is set (truthy)
    event_name,               \* GITHUB_EVENT_NAME
    event_file,               \* "json": open and json.load succeed; "bad": they raise
    payload,                  \* the fields of the event payload that main reads
    main_diff_text,           \* main's local diff_text
    main_review_text,         \* main's local review_text
    review_messages,          \* main's local review_messages
    sent,                     \* number of messages the for loop of main has handled
    calls,                    \* history: the outbound calls issued, with their outcome
    outcome,                  \* "running", "returned", "exit1" (sys.exit(1)), "crashed"
    pc                        \* main's position

pvars == <<text_in, review_text, max_length, messages, cuts, ppc>>
dvars == <<lines_in, diff_text, lines, pos, current_file_is_resource,
           filtered_diff_lines, kept, returned, dpc>>
evars == <<GH_API_TOKEN, DISCORD_WEBHOOK_URL, GEMINI_API_KEY, model, event_path,
           event_name, event_file, payload>>
mvars == <<evars, main_diff_text, main_review_text, review_messages, sent, calls,
           outcome, pc>>
vars == <<pvars, dvars, mvars>>

\* main is not running
IdleMain ==
    /\ GH_API_TOKEN = FALSE
    /\ DISCORD_WEBHOOK_URL = FALSE
    /\ GEMINI_API_KEY = FALSE
    /\ model = FALSE
    /\ event_path = FALSE
    /\ event_name = "push"
    /\ event_file = "json"
    /\ payload = [deleted |-> FALSE, repository |-> FALSE, before |-> <<>>,
                  head_commit |-> "absent"]
    /\ main_diff_text = <<>>
    /\ main_review_text = <<>>
    /\ review_messages = <<>>
    /\ sent = 0
    /\ calls = <<>>
    /\ outcome = "running"
    /\ pc = "idle"

\* ------------------------------------------------------------------------
\* Python str primitives
\* ------------------------------------------------------------------------

NL == "\n"

\* The characters str.lstrip() with no argument removes (str.isspace) that a
\* TLA+ string can hold.
Whitespace == {" ", "\t", "\n", "\r", "\f"}

Min(a, b) == IF a < b THEN a ELSE b

SetMax(S) == CHOOSE m \in S : \A n \in S : n <= m

SetMin(S) == CHOOSE m \in S : \A n \in S : m <= n

\* s[:n] for 0 <= n
Take(s, n) == SubSeq(s, 1, Min(n, Len(s)))

\* s[n:] for 0 <= n
Drop(s, n) == SubSeq(s, Min(n, Len(s)) + 1, Len(s))

\* s.rfind(c, start, end) for a one-character c and 0 <= start, 0 <= end: the
\* highest 0-based index i with start <= i < end and s[i] = c, or -1
rfind(s, c, start, end) ==
    LET hits == {i \in start .. (Min(end, Len(s)) - 1) : s[i + 1] = c}
    IN  IF hits = {} THEN -1 ELSE SetMax(hits)

\* s.lstrip(): s without its leading run of whitespace characters
lstrip(s) ==
    LET solid == {i \in 1 .. Len(s) : s[i] \notin Whitespace}
    IN  IF solid = {} THEN <<>> ELSE SubSeq(s, SetMin(solid), Len(s))

\* '\n'.join(parts); also the re-joining of chunks
RECURSIVE JoinLines(_)
JoinLines(parts) ==
    IF Len(parts) = 0 THEN <<>>
    ELSE IF Len(parts) = 1 THEN parts[1]
    ELSE parts[1] \o <<NL>> \o JoinLines(Tail(parts))

\* s.startswith(prefix)
startswith(s, prefix) ==
    Len(s) >= Len(prefix) /\ SubSeq(s, 1, Len(prefix)) = prefix

\* The 0-based positions at which sep occurs in s
Occurrences(s, sep) ==
    {i \in 0 .. (Len(s) - Len(sep)) : SubSeq(s, i + 1, i + Len(sep)) = sep}

\* s.split(sep)[-1] for a separator that cannot overlap itself: the text after
\* the last occurrence of sep, or all of s when sep does not occur
SplitLast(s, sep) ==
    IF Occurrences(s, sep) = {} THEN s
    ELSE Drop(s, SetMax(Occurrences(s, sep)) + Len(sep))

\* s.split('\n')
RECURSIVE SplitLines(_)
SplitLines(s) ==
    LET brk == {i \in 1 .. Len(s) : s[i] = NL}
    IN  IF brk = {} THEN <<s>>
        ELSE <<SubSeq(s, 1, SetMin(brk) - 1)>>
                 \o SplitLines(SubSeq(s, SetMin(brk) + 1, Len(s)))

UpperCase ==
    <<"A", "B", "C", "D", "E", "F", "G", "H", "I", "J", "K", "L", "M",
      "N", "O", "P", "Q", "R", "S", "T", "U", "V", "W", "X", "Y", "Z">>

LowerCase ==
    <<"a", "b", "c", "d", "e", "f", "g", "h", "i", "j", "k", "l", "m",
      "n", "o", "p", "q", "r", "s", "t", "u", "v", "w", "x", "y", "z">>

\* s.lower() on ASCII text
lower(s) ==
    [i \in 1 .. Len(s) |->
        IF \E k \in 1 .. Len(UpperCase) : UpperCase[k] = s[i]
        THEN LowerCase[CHOOSE k \in 1 .. Len(UpperCase) : UpperCase[k] = s[i]]
        ELSE s[i]]

\* os.path.splitext(p)[1] (posixpath): the text from the last dot of the last
\* path component, unless that component has only dots before it
splitext(p) ==
    LET sepIndex == rfind(p, "/", 0, Len(p))
        dotIndex == rfind(p, ".", 0, Len(p))
    IN  IF /\ dotIndex > sepIndex
           /\ \E k \in (sepIndex + 1) .. (dotIndex - 1) : p[k + 1] # "."
        THEN Drop(p, dotIndex)
        ELSE <<>>

\* ------------------------------------------------------------------------
\* split_review_into_messages (review_bot.py 194-204)
\* ------------------------------------------------------------------------

\* Faulty variant: the search range includes index maxlen.
RfindBreak_Inclusive(text, maxlen) == rfind(text, NL, 0, maxlen + 1)

\* line 198
RfindBreak(text, maxlen) == rfind(text, NL, 0, maxlen)

\* Faulty variant: the forced hard cut is made one character too late.
SplitPos_LateHardCut(text, maxlen) ==
    LET split_pos == RfindBreak(text, maxlen)
    IN  IF split_pos = -1 THEN maxlen + 1 ELSE split_pos

\* lines 198-200: split_pos of one iteration of the while loop
SplitPos(text, maxlen) ==
    LET split_pos == RfindBreak(text, maxlen)
    IN  IF split_pos = -1 THEN maxlen ELSE split_pos

\* line 201: the chunk appended by one iteration
SplitChunk(text, maxlen) == Take(text, SplitPos(text, maxlen))

\* Faulty variant: the remaining text is not stripped.
SplitRest_NoStrip(text, maxlen) == Drop(text, SplitPos(text, maxlen))

\* line 202: the remaining text after one iteration
SplitRest(text, maxlen) == lstrip(Drop(text, SplitPos(text, maxlen)))

\* Bounds of the paginator's inputs
MaxTextLen == 5
MaxMaxLength == 3

TextChars == {"a", "b", " ", NL}

Texts == UNION {[1 .. n -> TextChars] : n \in 0 .. MaxTextLen}

IdleDiff ==
    /\ lines_in = <<>>
    /\ diff_text = <<>>
    /\ lines = <<>>
    /\ pos = 0
    /\ current_file_is_resource = FALSE
    /\ filtered_diff_lines = <<>>
    /\ kept = <<>>
    /\ returned = <<>>
    /\ dpc = "idle"

InitSplit ==
    /\ IdleDiff
    /\ IdleMain
    /\ text_in \in Texts
    /\ review_text = text_in
    /\ max_length \in 1 .. MaxMaxLength
    /\ messages = <<>>
    /\ cuts = <<>>
    /\ ppc = "loop"

\* lines 197-202: one iteration of the while loop
SplitLoop ==
    /\ ppc = "loop"
    /\ Len(review_text) > max_length
    /\ messages' = Append(messages, SplitChunk(review_text, max_length))
    /\ review_text' = SplitRest(review_text, max_length)
    /\ cuts' = Append(cuts, RfindBreak(review_text, max_length))
    /\ UNCHANGED <<text_in, max_length, ppc, dvars, mvars>>

\* lines 197, 203-204: the loop test fails, the last chunk is appended
SplitReturn ==
    /\ ppc = "loop"
    /\ ~(Len(review_text) > max_length)
    /\ messages' = Append(messages, review_text)
    /\ ppc' = "done"
    /\ UNCHANGED <<text_in, review_text, max_length, cuts, dvars, mvars>>

NextSplit == SplitLoop \/ SplitReturn

\* The interpreter runs the function to its return: the loop is not suspended.
SpecSplit == InitSplit /\ [][NextSplit]_vars /\ WF_vars(NextSplit)

\* ------------------------------------------------------------------------
\* is_resource_file (review_bot.py 42-65)
\* ------------------------------------------------------------------------

\* lines 44-53
resource_extensions == {
    <<".", "p", "n", "g">>,
    <<".", "j", "p", "g">>,
    <<".", "j", "p", "e", "g">>,
    <<".", "g", "i", "f">>,
    <<".", "b", "m", "p">>,
    <<".", "t", "i", "f", "f">>,
    <<".", "w", "e", "b", "p">>,
    <<".", "i", "c", "o">>,
    <<".", "s", "v", "g">>,
    <<".", "m", "p", "3">>,
    <<".", "w", "a", "v">>,
    <<".", "o", "g", "g">>,
    <<".", "m", "4", "a">>,
    <<".", "a", "a", "c">>,
    <<".", "w", "m", "a">>,
    <<".", "f", "l", "a", "c">>,
    <<".", "a", "i", "f", "f">>,
    <<".", "m", "i", "d">>,
    <<".", "m", "i", "d", "i">>,
    <<".", "u", "n", "i", "t", "y", "3", "d">>,
    <<".", "b", "a", "n", "k">>,
    <<".", "f", "s", "b">>,
    <<".", "v", "a", "g">>,
    <<".", "x", "m", "a">>,
    <<".", "x", "w", "b">>,
    <<".", "m", "p", "4">>,
    <<".", "a", "v", "i">>,
    <<".", "m", "o", "v">>,
    <<".", "w", "m", "v">>,
    <<".", "f", "l", "v">>,
    <<".", "w", "e", "b", "m">>,
    <<".", "u", "n", "i", "t", "y">>,
    <<".", "p", "r", "e", "f", "a", "b">>,
    <<".", "a", "s", "s", "e", "t">>,
    <<".", "m", "a", "t">>,
    <<".", "a", "n", "i", "m">>,
    <<".", "c", "o", "n", "t", "r", "o", "l", "l", "e", "r">>,
    <<".", "m", "a", "s", "k">>,
    <<".", "m", "e", "t", "a">>,
    <<".", "f", "b", "x">>,
    <<".", "o", "b", "j">>,
    <<".", "b", "l", "e", "n", "d">>,
    <<".", "t", "g", "a">>,
    <<".", "p", "s", "d">>,
    <<".", "a", "i">>,
    <<".", "p", "d", "f">>,
    <<".", "z", "i", "p">>,
    <<".", "r", "a", "r">>,
    <<".", "7", "z">>,
    <<".", "t", "a", "r">>,
    <<".", "g", "z">>,
    <<".", "e", "x", "e">>,
    <<".", "d", "l", "l">>,
    <<".", "s", "o">>,
    <<".", "d", "y", "l", "i", "b">>,
    <<".", "b", "i", "n">>
    }

\* lines 54-58
resource_dirs == {
    <<"A", "s", "s", "e", "t", "s", "/", "R", "e", "s", "o", "u", "r", "c", "e", "s">>,
    <<"A", "s", "s", "e", "t", "s", "/", "S", "t", "r", "e", "a", "m", "i", "n", "g", "A", "s", "s", "e", "t", "s">>,
    <<"A", "s", "s", "e", "t", "s", "/", "T", "e", "x", "t", "u", "r", "e", "s">>,
    <<"A", "s", "s", "e", "t", "s", "/", "M", "o", "d", "e", "l", "s">>,
    <<"A", "s", "s", "e", "t", "s", "/", "A", "n", "i", "m", "a", "t", "i", "o", "n", "s">>,
    <<"A", "s", "s", "e", "t", "s", "/", "A", "u", "d", "i", "o">>,
    <<"A", "s", "s", "e", "t", "s", "/", "S", "c", "e", "n", "e", "s">>,
    <<"A", "s", "s", "e", "t", "s", "/", "P", "r", "e", "f", "a", "b", "s">>,
    <<"A", "s", "s", "e", "t", "s", "/", "M", "a", "t", "e", "r", "i", "a", "l", "s">>,
    <<"A", "s", "s", "e", "t", "s", "/", "S", "p", "r", "i", "t", "e", "s">>,
    <<"L", "i", "b", "r", "a", "r", "y">>,
    <<"T", "e", "m", "p">>,
    <<"L", "o", "g", "s">>
    }

\* lines 59-65
is_resource_file(filename) ==
    LET ext == lower(splitext(filename))
    IN  \/ ext \in resource_extensions
        \/ \E dir_path \in resource_dirs : startswith(filename, dir_path)

\* ------------------------------------------------------------------------
\* The diff filter of get_code_diff (review_bot.py 126-141)
\* ------------------------------------------------------------------------

\* 'diff --git' (line 130)
DiffGit ==
    <<"d", "i", "f", "f", " ", "-", "-", "g", "i", "t">>

\* ' b/' (line 133)
BMarker ==
    <<" ", "b", "/">>

\* Faulty variant: once a resource section was seen, the flag is never cleared.
HeaderFlag_Sticky(flag, line) ==
    IF startswith(line, DiffGit)
    THEN flag \/ is_resource_file(SplitLast(line, BMarker))
    ELSE flag

\* lines 130-136: current_file_is_resource after looking at line. str.split
\* always returns at least one piece, so [-1] never raises IndexError.
HeaderFlag(flag, line) ==
    IF startswith(line, DiffGit)
    THEN is_resource_file(SplitLast(line, BMarker))
    ELSE flag

\* lines 127-139 over a list of lines, starting with the given flag
RECURSIVE FilterLines(_, _)
FilterLines(ls, flag) ==
    IF Len(ls) = 0 THEN <<>>
    ELSE LET f == HeaderFlag(flag, Head(ls))
         IN  (IF f THEN <<>> ELSE <<Head(ls)>>) \o FilterLines(Tail(ls), f)

\* lines 127-141: the text get_code_diff returns for a fetched diff_text
FilterDiff(text) == JoinLines(FilterLines(SplitLines(text), FALSE))

\* The lines a fetched diff is made of
\* 'diff --git a/x.py b/x.py'
HeaderPy ==
    <<"d", "i", "f", "f", " ", "-", "-", "g", "i", "t", " ", "a", "/", "x", ".", "p", "y", " ", "b", "/", "x", ".", "p", "y">>

\* 'diff --git a/x.png b/x.png'
HeaderPng ==
    <<"d", "i", "f", "f", " ", "-", "-", "g", "i", "t", " ", "a", "/", "x", ".", "p", "n", "g", " ", "b", "/", "x", ".", "p", "n", "g">>

\* 'diff --git a/x.PNG b/x.PNG'
HeaderUpperPng ==
    <<"d", "i", "f", "f", " ", "-", "-", "g", "i", "t", " ", "a", "/", "x", ".", "P", "N", "G", " ", "b", "/", "x", ".", "P", "N", "G">>

\* 'diff --git a/Library/x.py b/Library/x.py'
HeaderLibrary ==
    <<"d", "i", "f", "f", " ", "-", "-", "g", "i", "t", " ", "a", "/", "L", "i", "b", "r", "a", "r", "y", "/", "x", ".", "p", "y", " ", "b", "/", "L", "i", "b", "r", "a", "r", "y", "/", "x", ".", "p", "y">>

\* 'diff --git a/x.png b/x.py'
HeaderRenamed ==
    <<"d", "i", "f", "f", " ", "-", "-", "g", "i", "t", " ", "a", "/", "x", ".", "p", "n", "g", " ", "b", "/", "x", ".", "p", "y">>

\* 'diff --git a/x.png'
HeaderNoBPng ==
    <<"d", "i", "f", "f", " ", "-", "-", "g", "i", "t", " ", "a", "/", "x", ".", "p", "n", "g">>

\* 'diff --git a/x.py'
HeaderNoBPy ==
    <<"d", "i", "f", "f", " ", "-", "-", "g", "i", "t", " ", "a", "/", "x", ".", "p", "y">>

\* 'diff --git'
HeaderBare ==
    <<"d", "i", "f", "f", " ", "-", "-", "g", "i", "t">>

\* '+a'
LineAdded ==
    <<"+", "a">>

\* '-x.png'
LineRemovedPng ==
    <<"-", "x", ".", "p", "n", "g">>

\* ''
LineEmpty ==
    <<>>

\* ' diff --git a/x.png b/x.png'
LineQuotedHeader ==
    <<" ", "d", "i", "f", "f", " ", "-", "-", "g", "i", "t", " ", "a", "/", "x", ".", "p", "n", "g", " ", "b", "/", "x", ".", "p", "n", "g">>

DiffLines == {HeaderPy, HeaderPng, HeaderUpperPng, HeaderLibrary, HeaderRenamed, HeaderNoBPng, HeaderNoBPy, HeaderBare, LineAdded, LineRemovedPng, LineEmpty, LineQuotedHeader}

\* Bound of the diff filter's input
MaxDiffLines == 3

Diffs == UNION {[1 .. n -> DiffLines] : n \in 1 .. MaxDiffLines}

IdleSplit ==
    /\ text_in = <<>>
    /\ review_text = <<>>
    /\ max_length = 0
    /\ messages = <<>>
    /\ cuts = <<>>
    /\ ppc = "idle"

\* lines 124-129: the response body has arrived and is split into lines
InitDiff ==
    /\ IdleSplit
    /\ IdleMain
    /\ lines_in \in Diffs
    /\ diff_text = JoinLines(lines_in)
    /\ lines = SplitLines(diff_text)
    /\ pos = 0
    /\ current_file_is_resource = FALSE
    /\ filtered_diff_lines = <<>>
    /\ kept = <<>>
    /\ returned = <<>>
    /\ dpc = "scan"

\* lines 129-139: one iteration of the for loop
DiffScan ==
    /\ dpc = "scan"
    /\ pos < Len(lines)
    /\ LET line == lines[pos + 1]
           flag == HeaderFlag(current_file_is_resource, line)
       IN  /\ current_file_is_resource' = flag
           /\ filtered_diff_lines' =
                  IF ~flag THEN Append(filtered_diff_lines, line)
                  ELSE filtered_diff_lines
           /\ kept' = Append(kept, ~flag)
    /\ pos' = pos + 1
    /\ UNCHANGED <<lines_in, diff_text, lines, returned, dpc, pvars, mvars>>

\* line 141
DiffReturn ==
    /\ dpc = "scan"
    /\ pos = Len(lines)
    /\ returned' = JoinLines(filtered_diff_lines)
    /\ dpc' = "done"
    /\ UNCHANGED <<lines_in, diff_text, lines, pos, current_file_is_resource,
                   filtered_diff_lines, kept, pvars, mvars>>

NextDiff == DiffScan \/ DiffReturn

SpecDiff == InitDiff /\ [][NextDiff]_vars

\* ------------------------------------------------------------------------
\* Properties of split_review_into_messages
\* ------------------------------------------------------------------------

\* C1: every chunk in messages (cut at a line break, cut by a forced hard
\* cut, or the final one) has length <= max_length.
C1_ChunkLengthBounded ==
    \A i \in 1 .. Len(messages) : Len(messages[i]) <= max_length

\* The function returned after at least one line-break cut and one hard cut.
C1_Witness ==
    /\ ppc = "done"
    /\ \E i \in 1 .. Len(cuts) : cuts[i] = -1
    /\ \E i \in 1 .. Len(cuts) : cuts[i] >= 0

\* C2: every iteration of the loop strictly shortens the remaining text, and
\* the function eventually returns (the final chunk is emitted).
C2_Terminates ==
    /\ [][SplitLoop => Len(review_text') < Len(review_text)]_vars
    /\ <>(ppc = "done")

\* The function returned after an iteration whose split position was 0 (the
\* remaining text began with a line break) and after a forced hard cut.
C2_Witness ==
    /\ ppc = "done"
    /\ \E i \in 1 .. Len(cuts) : cuts[i] = 0
    /\ \E i \in 1 .. Len(cuts) : cuts[i] = -1

\* C3: when no forced hard cut occurred, joining the returned chunks with one
\* line break between consecutive chunks gives back the original text.
C3_RoundTrip ==
    (ppc = "done" /\ \A i \in 1 .. Len(cuts) : cuts[i] # -1)
        => JoinLines(messages) = text_in

\* p is a line-break position of text that is below limit (exclusive) and no
\* later line break is below limit
IsLastBreakBelow(text, p, limit) ==
    /\ 0 <= p /\ p < limit /\ p < Len(text)
    /\ text[p + 1] = NL
    /\ \A q \in (p + 1) .. (Min(limit, Len(text)) - 1) : text[q + 1] # NL

NoBreakBelow(text, limit) ==
    \A q \in 0 .. (Min(limit, Len(text)) - 1) : text[q + 1] # NL

\* The loop iteration appended text[:p], where p is the last line break below
\* limit, or max_length when there is none.
CutsAtLastBreakBelow(limit) ==
    \E p \in 0 .. max_length :
        /\ messages' = Append(messages, Take(review_text, p))
        /\ \/ IsLastBreakBelow(review_text, p, limit)
           \/ NoBreakBelow(review_text, limit) /\ p = max_length

\* C10 as stated: the split position is the last line break at or before
\* index max_length (index max_length included), else a hard cut at
\* max_length; the chunk is the text before that position.
C10_AtOrBeforeMaxLength == [][SplitLoop => CutsAtLastBreakBelow(max_length + 1)]_vars

\* C10 amended: the split position is the last line break strictly before
\* index max_length, else a hard cut at max_length; the chunk is the text
\* before that position.
C10_StrictlyBeforeMaxLength == [][SplitLoop => CutsAtLastBreakBelow(max_length)]_vars

\* An iteration has run on a text with a line break exactly at index
\* max_length and an earlier one, and it cut at the earlier one.
C10_Witness ==
    /\ Len(cuts) >= 1
    /\ Len(text_in) > max_length
    /\ text_in[max_length + 1] = NL
    /\ cuts[1] >= 0
    /\ messages[1] = Take(text_in, cuts[1])

\* ------------------------------------------------------------------------
\* Properties of the diff filter
\* ------------------------------------------------------------------------

IsHeader(line) ==
    /\ Len(line) >= Len(DiffGit)
    /\ \A k \in 1 .. Len(DiffGit) : line[k] = DiffGit[k]

\* The positions of line at which the second file marker ' b/' starts
MarkerStarts(line) ==
    {k \in 1 .. (Len(line) - 2) : <<line[k], line[k + 1], line[k + 2]>> = BMarker}

\* The path a header names: the text after its last ' b/'; for a header
\* without ' b/' the text the code classifies, the whole header line
NamedPath(line) ==
    IF MarkerStarts(line) = {} THEN line
    ELSE LET last == SetMax(MarkerStarts(line))
         IN  [i \in 1 .. (Len(line) - last - 2) |-> line[last + 2 + i]]

\* The most recent header at or before line i of ls, 0 when there is none
GoverningHeader(ls, i) ==
    LET hs == {j \in 1 .. i : IsHeader(ls[j])}
    IN  IF hs = {} THEN 0 ELSE SetMax(hs)

\* Line i of ls belongs to no section or to the section of a path that is not
\* a resource file
InReviewableSection(ls, i) ==
    \/ GoverningHeader(ls, i) = 0
    \/ ~is_resource_file(NamedPath(ls[GoverningHeader(ls, i)]))

\* The lines of ls at the indices in idx, in their original order
SubsequenceAt(ls, idx) ==
    [k \in 1 .. Cardinality(idx) |->
        ls[CHOOSE i \in idx : Cardinality({j \in idx : j <= i}) = k]]

\* C4: a line of the fetched diff is kept iff its most recent 'diff --git'
\* header names a non-resource path (or no header precedes it); the returned
\* text is those lines in their original order; a diff without resource
\* sections is returned unchanged and one with only resource sections as ''.
C4_WholeSections ==
    /\ \A i \in 1 .. pos : kept[i] <=> InReviewableSection(lines_in, i)
    /\ dpc = "done" =>
        LET all == 1 .. Len(lines_in)
            good == {i \in all : InReviewableSection(lines_in, i)}
        IN  /\ returned = JoinLines(SubsequenceAt(lines_in, good))
            /\ good = all => returned = diff_text
            /\ good = {} => returned = <<>>

\* The filter returned after dropping a content line of a resource section
\* and keeping a later line of a reviewable section.
C4_Witness ==
    /\ dpc = "done"
    /\ \E i \in 1 .. Len(lines_in) :
        /\ ~IsHeader(lines_in[i]) /\ ~kept[i]
        /\ \E j \in (i + 1) .. Len(lines_in) : kept[j]

\* C5: every line whose most recent 'diff --git' header has no ' b/' is kept,
\* whatever the rest of that header line looks like.
C5_FailOpen ==
    \A i \in 1 .. pos :
        (/\ GoverningHeader(lines_in, i) # 0
         /\ MarkerStarts(lines_in[GoverningHeader(lines_in, i)]) = {})
            => kept[i]

\* ------------------------------------------------------------------------
\* main and the functions it awaits (review_bot.py 88-192, 210-286)
\* ------------------------------------------------------------------------

\* max_length=1900 (line 194), the value main's call at line 277 uses
DefaultMaxLength == 1900

\* lines 194-204 as a function of its arguments
RECURSIVE split_review_into_messages(_, _)
split_review_into_messages(text, maxlen) ==
    IF Len(text) > maxlen
    THEN <<SplitChunk(text, maxlen)>>
             \o split_review_into_messages(SplitRest(text, maxlen), maxlen)
    ELSE <<text>>

\* not s.strip() (line 261); also true of None
IsBlank(s) == \A i \in 1 .. Len(s) : s[i] \in Whitespace

\* '0000000' (line 234)
ZeroPrefix ==
    <<"0", "0", "0", "0", "0", "0", "0">>

\* The all-zero revision a push payload carries as 'before' for a new branch
AllZeroSha == [i \in 1 .. 40 |-> "0"]

\* Some other revision
SomeSha ==
    <<"3", "f", "a", "0", "c", "1", "e">>

\* payload.get('before'): <<>> stands for an absent, null or empty value
BeforeValues == {<<>>, AllZeroSha, SomeSha}

\* payload.get('head_commit'): absent (or null), complete, or lacking one of
\* the keys lines 245-247 index
HeadCommitValues == {"absent", "full", "no_message", "no_url", "no_author"}

EventNames == {"push", "pull_request", "workflow_dispatch"}

\* Faulty variant: only a missing base revision is treated as a new branch.
NoBase_OnlyMissing(base_commit) == base_commit = <<>>

\* line 234
NoBase(base_commit) ==
    base_commit = <<>> \/ startswith(base_commit, ZeroPrefix)

\* lines 224-251: how the event branch of main ends. "crash" is an uncaught
\* KeyError from payload['repository'] or from head_commit_info[...].
EventResult(name, pl) ==
    IF name = "push"
    THEN IF pl.deleted THEN "return"
         ELSE IF ~pl.repository THEN "crash"
         ELSE IF NoBase(pl.before) THEN "return"
         ELSE IF pl.head_commit = "absent" THEN "return"
         ELSE IF pl.head_commit # "full" THEN "crash"
         ELSE "proceed"
    ELSE "return"

\* Faulty variant: the review is requested whether or not the model was configured.
ReviewPrecheck_NoModelCheck(m, d) ==
    IF d = <<>> THEN "no_diff" ELSE "call"

\* lines 151-154
ReviewPrecheck(m, d) ==
    IF ~m THEN "no_model"
    ELSE IF d = <<>> THEN "no_diff"
    ELSE "call"

\* Stand-ins for the three fixed one-line texts get_ai_code_review returns
\* without a review (lines 152, 154, 177)
ModelMissingText ==
    <<"n", "o", " ", "m", "o", "d", "e", "l">>

NoChangesText ==
    <<"n", "o", " ", "d", "i", "f", "f">>

ReviewErrorText ==
    <<"e", "r", "r", "o", "r">>

\* Response bodies of the diff fetch: a reviewable section, a resource
\* section only, blank lines only
FetchedBodies ==
    {JoinLines(<<HeaderPy, LineAdded>>), JoinLines(<<HeaderPng, LineAdded>>),
     JoinLines(<<LineEmpty, LineEmpty>>)}

\* Outcomes of session.get at line 122: a body, raise_for_status raising, or
\* another exception
FetchResponses ==
    {[status |-> "ok", body |-> b] : b \in FetchedBodies}
        \cup {[status |-> "error", body |-> <<>>], [status |-> "exception", body |-> <<>>]}

\* Texts the language model returns: short, empty, one line longer than
\* max_length, and a long text with an early line break
ReviewReplies ==
    {<<"o", "k">>, <<>>,
     [i \in 1 .. (DefaultMaxLength + 1) |-> "a"],
     [i \in 1 .. (DefaultMaxLength + 2) |-> IF i = 3 THEN NL ELSE "a"]}

\* Outcomes of generate_content_async at line 173
ReviewResponses ==
    {[status |-> "ok", text |-> t] : t \in ReviewReplies}
        \cup {[status |-> "exception", text |-> <<>>]}

\* lines 21-36 and 213-214: the environment the process starts in; the model
\* is None without GEMINI_API_KEY or when configuring it raised
InitMain ==
    /\ IdleSplit
    /\ IdleDiff
    /\ GH_API_TOKEN \in BOOLEAN
    /\ DISCORD_WEBHOOK_URL \in BOOLEAN
    /\ GEMINI_API_KEY \in BOOLEAN
    /\ model \in (IF GEMINI_API_KEY THEN BOOLEAN ELSE {FALSE})
    /\ event_path \in BOOLEAN
    /\ event_name \in EventNames
    /\ event_file \in {"json", "bad"}
    /\ payload \in [deleted : BOOLEAN, repository : BOOLEAN, before : BeforeValues,
                    head_commit : HeadCommitValues]
    /\ main_diff_text = <<>>
    /\ main_review_text = <<>>
    /\ review_messages = <<>>
    /\ sent = 0
    /\ calls = <<>>
    /\ outcome = "running"
    /\ pc = "start"

Finish(how) ==
    /\ outcome' = how
    /\ pc' = "end"

\* lines 211-221: sys.exit(1) without the path; open or json.load may raise
MainStart ==
    /\ pc = "start"
    /\ IF ~event_path THEN Finish("exit1")
       ELSE IF event_file # "json" THEN Finish("crashed")
       ELSE pc' = "event" /\ UNCHANGED outcome
    /\ UNCHANGED <<evars, main_diff_text, main_review_text, review_messages, sent,
                   calls, pvars, dvars>>

\* lines 223-251
MainEvent ==
    /\ pc = "event"
    /\ LET result == EventResult(event_name, payload)
       IN  IF result = "crash" THEN Finish("crashed")
           ELSE IF result = "return" THEN Finish("returned")
           ELSE pc' = "token_test" /\ UNCHANGED outcome
    /\ UNCHANGED <<evars, main_diff_text, main_review_text, review_messages, sent,
                   calls, pvars, dvars>>

\* lines 253-256 with test_api_token_access (88-112): without the token no
\* request is made; any status but 200 and any exception give False
MainTokenTest ==
    /\ pc = "token_test"
    /\ IF ~GH_API_TOKEN
       THEN Finish("returned") /\ UNCHANGED calls
       ELSE \E resp \in {"200", "404", "exception"} :
               /\ calls' = Append(calls, [call |-> "token_test", ok |-> resp = "200"])
               /\ IF resp = "200" THEN pc' = "fetch" /\ UNCHANGED outcome
                  ELSE Finish("returned")
    /\ UNCHANGED <<evars, main_diff_text, main_review_text, review_messages, sent,
                   pvars, dvars>>

\* lines 258-263 with get_code_diff (114-147): None without the token or on
\* any failure, else the filtered body; main returns on an empty or blank diff
MainFetchDiff ==
    /\ pc = "fetch"
    /\ IF ~GH_API_TOKEN
       THEN Finish("returned") /\ UNCHANGED <<calls, main_diff_text>>
       ELSE \E resp \in FetchResponses :
               LET fetched == IF resp.status = "ok" THEN FilterDiff(resp.body) ELSE <<>>
               IN  /\ calls' = Append(calls, [call |-> "diff_fetch", ok |-> resp.status = "ok"])
                   /\ main_diff_text' = fetched
                   /\ IF IsBlank(fetched) THEN Finish("returned")
                      ELSE pc' = "review" /\ UNCHANGED outcome
    /\ UNCHANGED <<evars, main_review_text, review_messages, sent, pvars, dvars>>

\* lines 266-277 with get_ai_code_review (149-177): a fixed text without a
\* request when the model is None or the diff empty, else the reply or the
\* error text; then the text is split
MainReview ==
    /\ pc = "review"
    /\ \E text \in ReviewReplies \cup {ModelMissingText, NoChangesText, ReviewErrorText} :
        /\ CASE ReviewPrecheck(model, main_diff_text) = "no_model" ->
                    text = ModelMissingText /\ UNCHANGED calls
             [] ReviewPrecheck(model, main_diff_text) = "no_diff" ->
                    text = NoChangesText /\ UNCHANGED calls
             [] OTHER ->
                    \E resp \in ReviewResponses :
                        /\ text = (IF resp.status = "ok" THEN resp.text ELSE ReviewErrorText)
                        /\ calls' = Append(calls, [call |-> "review_request",
                                                   ok |-> resp.status = "ok"])
        /\ main_review_text' = text
        /\ review_messages' = split_review_into_messages(text, DefaultMaxLength)
    /\ sent' = 0
    /\ pc' = "send"
    /\ UNCHANGED <<evars, main_diff_text, outcome, pvars, dvars>>

\* lines 278-284 with send_to_discord (179-192): one iteration; without the
\* webhook URL nothing is posted; a status >= 300 or an exception is logged
MainSend ==
    /\ pc = "send"
    /\ sent < Len(review_messages)
    /\ IF ~DISCORD_WEBHOOK_URL
       THEN UNCHANGED calls
       ELSE \E resp \in {"204", "500", "exception"} :
               calls' = Append(calls, [call |-> "webhook_post", ok |-> resp = "204"])
    /\ sent' = sent + 1
    /\ UNCHANGED <<evars, main_diff_text, main_review_text, review_messages, outcome,
                   pc, pvars, dvars>>

\* line 286
MainDone ==
    /\ pc = "send"
    /\ sent = Len(review_messages)
    /\ Finish("returned")
    /\ UNCHANGED <<evars, main_diff_text, main_review_text, review_messages, sent,
                   calls, pvars, dvars>>

NextMain ==
    \/ MainStart
    \/ MainEvent
    \/ MainTokenTest
    \/ MainFetchDiff
    \/ MainReview
    \/ MainSend
    \/ MainDone

SpecMain == InitMain /\ [][NextMain]_vars

Spec == SpecMain

\* ------------------------------------------------------------------------
\* Properties of main
\* ------------------------------------------------------------------------

Issued(kind) == \E i \in 1 .. Len(calls) : calls[i].call = kind

\* The event payload was read and is a push that main takes to the pipeline
ValidPush ==
    /\ event_path
    /\ event_file = "json"
    /\ event_name = "push"
    /\ ~payload.deleted
    /\ payload.repository
    /\ payload.before = SomeSha
    /\ payload.head_commit = "full"

\* C6: a push whose 'before' is the all-zero revision, or whose payload is
\* flagged 'deleted', never gets past the event branch of main and no
\* outbound call is ever issued.
C6_NoCallOnNoOpPush ==
    (event_name = "push" /\ (payload.before = AllZeroSha \/ payload.deleted))
        => (calls = <<>> /\ pc \in {"start", "event", "end"})

\* The run of a push with the all-zero 'before' (not flagged deleted, with a
\* repository) has returned.
C6_Witness ==
    /\ event_name = "push"
    /\ payload.before = AllZeroSha
    /\ ~payload.deleted
    /\ payload.repository
    /\ pc = "end"
    /\ outcome = "returned"

\* C7 as stated: with any one of the three settings absent, the run on a
\* valid push issues no outbound request at all and does not crash.
C7_NoRequestWhenAnySettingAbsent ==
    (ValidPush /\ (~GH_API_TOKEN \/ ~GEMINI_API_KEY \/ ~DISCORD_WEBHOOK_URL))
        => (calls = <<>> /\ outcome \in {"running", "returned"})

\* C7 amended: on a valid push, without GH_API_TOKEN no outbound request is
\* issued; without GEMINI_API_KEY no language-model request is issued;
\* without DISCORD_WEBHOOK_URL no webhook post is issued; and with any of
\* them absent the run returns without crashing.
C7_AbsentSettingSkipsItsStage ==
    ValidPush =>
        /\ ~GH_API_TOKEN => calls = <<>>
        /\ ~GEMINI_API_KEY => ~Issued("review_request")
        /\ ~DISCORD_WEBHOOK_URL => ~Issued("webhook_post")
        /\ (~GH_API_TOKEN \/ ~GEMINI_API_KEY \/ ~DISCORD_WEBHOOK_URL)
               => /\ outcome \in {"running", "returned"}
                  /\ pc = "end" => outcome = "returned"

\* The run of a valid push without GEMINI_API_KEY has returned after the
\* diff was fetched and the fixed text was posted.
C7_Witness ==
    /\ ValidPush
    /\ GH_API_TOKEN /\ ~GEMINI_API_KEY /\ DISCORD_WEBHOOK_URL
    /\ pc = "end"
    /\ Issued("diff_fetch")
    /\ Issued("webhook_post")
    /\ ~Issued("review_request")

\* C8: a run that read its event payload (the path is set and the file is
\* readable JSON) never ends as a process-level failure, whatever the shape
\* of the payload and whatever the external services answer.
C8_ReadablePayloadNeverFails ==
    (event_path /\ event_file = "json") => outcome \in {"running", "returned"}

\* The kinds of the calls issued, in order of issue
CallKinds == [i \in 1 .. Len(calls) |-> calls[i].call]

\* C9: a run for a pull-request event with all settings present whose
\* external calls all succeeded (and returned a reviewable diff) has, when it
\* ends, fetched the diff, then requested a review, then posted it.
C9_PullRequestReviewed ==
    (/\ event_name = "pull_request"
     /\ event_path /\ event_file = "json"
     /\ GH_API_TOKEN /\ model /\ DISCORD_WEBHOOK_URL
     /\ \A i \in 1 .. Len(calls) : calls[i].ok
     /\ Issued("diff_fetch") => ~IsBlank(main_diff_text)
     /\ pc = "end")
        => \E i, j, k \in 1 .. Len(calls) :
               /\ i < j /\ j < k
               /\ CallKinds[i] = "diff_fetch"
               /\ CallKinds[j] = "review_request"
               /\ CallKinds[k] = "webhook_post"

====
